---- MODULE Spec2Model ----
(***************************************************************************)
(* image_sl: a provider shared library (src/src/lib.rs) exporting a        *)
(* function table over opaque image handles, and a consumer               *)
(* (src/examples/use_lib/img) that loads it and wraps the handles in       *)
(* ImageFactory / Image.                                                   *)
(*                                                                         *)
(* The provider's routines are operators from the heap and the arguments   *)
(* to the set of outcomes the call can have; the consumer's methods and    *)
(* a host calling the table directly are the actions.                      *)
(***************************************************************************)
EXTENDS Integers, Sequences, FiniteSets, Bags, TLC

VARIABLES
    heap,       \* provider: address -> the DynamicImage boxed there, or NoImage
    libs,       \* consumer: load number -> the Arc<Library> and table of its Libs
    nloads,     \* consumer: how many loads succeeded so far
    factories,  \* consumer: the loads whose ImageFactory is alive
    images,     \* consumer: the bag of live Image values, [lib, handle]
    slot,       \* direct host: the ImageHandle variable it passes as `out`
    block,      \* direct host: the FunctionsBlock functions() last returned
    proc,       \* the process: running, or how it stopped
    last,       \* the last consumer method called and its result
    call        \* the call through the ABI the last step made, if any

vars ==
    <<heap, libs, nloads, factories, images, slot, block, proc, last, call>>

----------------------------------------------------------------------------
(* Bounds of the model. *)

\* Heap addresses the allocator hands out: 1..MaxAddr.
MaxAddr == 2
\* Successful library loads (ImageFactory::new) in one run.
MaxLoads == 1
\* Live Image values at one time.
MaxImages == 2

----------------------------------------------------------------------------
(* Values. *)

\* The null pointer (std::ptr::null()).
Null == 0

Addrs == 1..MaxAddr

\* Paths callers pass, as bytes: "a", U+00E9, a lead byte alone, 0xFF 0xFE,
\* and "a" NUL "b".
Paths ==
    { <<97>>, <<195, 169>>, <<195>>, <<255, 254>>, <<97, 0, 98>> }

\* A freed or never allocated address.
NoImage == [fmt |-> "none", px |-> <<>>]

\* Images the engine decodes from files.
Decodable ==
    { [fmt |-> "Rgb8", px |-> <<0, 3>>],
      [fmt |-> "Rgba8", px |-> <<1, 1>>] }

\* Blur radii callers pass.
Sigmas == {1, 2}

\* image::ImageError, the engine's error: its five named variants and one
\* more (Limits) for the match's wildcard arm.
EngineErrors ==
    {"Decoding", "Encoding", "Unsupported", "Parameter", "IoError", "Limits"}

\* What image::open / DynamicImage::save return: the environment's choice.
EngineOpenResults ==
    { [ok |-> TRUE, img |-> i, err |-> "none"] : i \in Decodable }
    \cup { [ok |-> FALSE, img |-> NoImage, err |-> e] : e \in EngineErrors }

EngineSaveResults == {"ok"} \cup EngineErrors

----------------------------------------------------------------------------
(* Strings and paths. *)

IsCont(b) == b >= 128 /\ b <= 191

\* core::str::from_utf8: whether a byte sequence is UTF-8.
RECURSIVE Utf8Valid(_)
Utf8Valid(s) ==
    IF s = <<>> THEN TRUE
    ELSE LET b == Head(s)
             n == Len(s)
         IN  IF b < 128 THEN Utf8Valid(Tail(s))
             ELSE IF b >= 194 /\ b <= 223
             THEN n >= 2 /\ IsCont(s[2]) /\ Utf8Valid(SubSeq(s, 3, n))
             ELSE IF b >= 224 /\ b <= 239
             THEN /\ n >= 3 /\ IsCont(s[2]) /\ IsCont(s[3])
                  /\ (b = 224 => s[2] >= 160)
                  /\ (b = 237 => s[2] <= 159)
                  /\ Utf8Valid(SubSeq(s, 4, n))
             ELSE IF b >= 240 /\ b <= 244
             THEN /\ n >= 4 /\ IsCont(s[2]) /\ IsCont(s[3]) /\ IsCont(s[4])
                  /\ (b = 240 => s[2] >= 144)
                  /\ (b = 244 => s[2] <= 143)
                  /\ Utf8Valid(SubSeq(s, 5, n))
             ELSE FALSE

HasNul(s) == \E i \in 1..Len(s) : s[i] = 0

\* CStr::from_ptr: the bytes of a buffer before its first NUL.
RECURSIVE CStrBytes(_)
CStrBytes(buf) ==
    IF buf = <<>> \/ Head(buf) = 0 THEN <<>>
    ELSE <<Head(buf)>> \o CStrBytes(Tail(buf))

\* path_to_cstring without the to_str test: the bytes go to CString::new as
\* they are.
path_to_cstring_unchecked(path) ==
    IF HasNul(path)
    THEN [ok |-> FALSE, err |-> "NulError", cstring |-> <<>>]
    ELSE [ok |-> TRUE, err |-> "none", cstring |-> path \o <<0>>]

\* path_to_cstring that builds the C string with no test for an interior
\* NUL (CString::from_vec_unchecked): the terminator is appended to the
\* bytes as they are.
path_to_cstring_nul_unchecked(path) ==
    IF ~Utf8Valid(path)
    THEN [ok |-> FALSE, err |-> "NotUtf8", cstring |-> <<>>]
    ELSE [ok |-> TRUE, err |-> "none", cstring |-> path \o <<0>>]

\* path_to_cstring: Path::to_str, then CString::new, which refuses an
\* interior NUL and appends the terminator.
path_to_cstring(path) ==
    IF ~Utf8Valid(path)
    THEN [ok |-> FALSE, err |-> "NotUtf8", cstring |-> <<>>]
    ELSE IF HasNul(path)
    THEN [ok |-> FALSE, err |-> "NulError", cstring |-> <<>>]
    ELSE [ok |-> TRUE, err |-> "none", cstring |-> path \o <<0>>]

\* A RawPath: a null pointer, or a pointer to a NUL-terminated buffer.
NullPath == [null |-> TRUE, buf |-> <<>>]
PathPtr(buf) == [null |-> FALSE, buf |-> buf]

----------------------------------------------------------------------------
(* The provider: error codes. *)

\* enum ImageError of the provider, #[repr(C)]: name -> discriminant.
ImageErrorCode ==
    [ NoError |-> 0, Io |-> 1, Decoding |-> 2, Encoding |-> 3,
      Parameter |-> 4, Unsupported |-> 5 ]

\* impl From<image::ImageError> with InvalidParameter and Unsupported taken
\* for one another.
FromEngineError_swapped(e) ==
    CASE e = "Decoding" -> "Decoding"
      [] e = "Encoding" -> "Encoding"
      [] e = "Unsupported" -> "Parameter"
      [] e = "Parameter" -> "Unsupported"
      [] e = "IoError" -> "Io"
      [] OTHER -> "Unsupported"

\* impl From<image::ImageError> for ImageError.
FromEngineError(e) ==
    CASE e = "Decoding" -> "Decoding"
      [] e = "Encoding" -> "Encoding"
      [] e = "Unsupported" -> "Unsupported"
      [] e = "Parameter" -> "Parameter"
      [] e = "IoError" -> "Io"
      [] OTHER -> "Unsupported"

\* impl TryFrom<&RawPath> for &Path.
TryFromRawPath(path) ==
    IF path.null THEN [ok |-> FALSE, err |-> "Parameter", path |-> <<>>]
    ELSE LET s == CStrBytes(path.buf) IN
         IF Utf8Valid(s) THEN [ok |-> TRUE, err |-> "none", path |-> s]
         ELSE [ok |-> FALSE, err |-> "Parameter", path |-> <<>>]

----------------------------------------------------------------------------
(* The provider: the heap of boxed images. *)

NoHeap == [a \in Addrs |-> NoImage]

Live(h) == {a \in Addrs : h[a] # NoImage}

\* What a call into the provider can do: how it ended ("returned", or a
\* panic that "abort"s the process or "unwind"s into the caller, or undefined
\* behaviour that "crash"es), the value returned, the heap after it, the
\* handle written through `out`, if any, and what the image engine answered
\* ("none" when the routine never reached it).
NoWrite == [w |-> FALSE, v |-> Null]
Write(v) == [w |-> TRUE, v |-> v]
Returned(h, ret, write) ==
    [outcome |-> "returned", ret |-> ret, heap |-> h, write |-> write,
     eng |-> "none"]

\* A panic inside an extern "C" routine: it aborts the process or unwinds
\* into the caller's frames, as the toolchain decides.
Panics(h) ==
    { [outcome |-> o, ret |-> 0, heap |-> h, write |-> NoWrite,
       eng |-> "none"] :
        o \in {"abort", "unwind"} }

\* Undefined behaviour on a pointer that is no live box: the call may return
\* having done nothing, or the process crashes.
Undefined(h) ==
    { [outcome |-> o, ret |-> 0, heap |-> h, write |-> NoWrite,
       eng |-> "none"] :
        o \in {"returned", "crash"} }

\* The outcome of a routine that got the answer e from the image engine
\* (image::open, DynamicImage::save): "ok" or the kind of image::ImageError.
Engine(o, e) == [o EXCEPT !.eng = e]

\* ImageHandle::from_image: Box::leak(Box::new(image)); the allocator picks
\* the address among the free ones.
from_image(h, image) ==
    { [addr |-> a, heap |-> [h EXCEPT ![a] = image]] : a \in Addrs \ Live(h) }

\* ImageHandle::as_image: ptr.as_mut().unwrap().
as_image(h, handle) ==
    IF handle = Null THEN [panic |-> TRUE, img |-> NoImage]
    ELSE [panic |-> FALSE, img |-> h[handle]]

\* image::imageops::blur, a row at a time: the mean over the window of
\* radius sigma, cut at the edges.
Max(a, b) == IF a > b THEN a ELSE b
Min(a, b) == IF a < b THEN a ELSE b
RECURSIVE SumRange(_, _, _)
SumRange(px, lo, hi) ==
    IF lo > hi THEN 0 ELSE px[lo] + SumRange(px, lo + 1, hi)
EngineBlur(px, sigma) ==
    [ i \in 1..Len(px) |->
        LET lo == Max(1, i - sigma)
            hi == Min(Len(px), i + sigma)
        IN  SumRange(px, lo, hi) \div (hi - lo + 1) ]

\* A flip that copies each pixel over its mirror place, left to right, with
\* no swap: the right half reads what the left half already overwrote.
FlipHorizontal_overwrite(px) ==
    [i \in 1..Len(px) |->
        IF 2 * i <= Len(px) + 1 THEN px[Len(px) + 1 - i] ELSE px[i]]

\* image::imageops::flip_horizontal_in_place.
FlipHorizontal(px) == [i \in 1..Len(px) |-> px[Len(px) + 1 - i]]

----------------------------------------------------------------------------
(* The provider: the exported routines. *)

\* img_open that clears *handle before it looks at the path.
img_open_clears_out(h, path, outNull, eng) ==
    IF outNull THEN {Returned(h, ImageErrorCode.Parameter, NoWrite)}
    ELSE IF path.null
    THEN {Returned(h, ImageErrorCode.Parameter, Write(Null))}
    ELSE LET p == TryFromRawPath(path) IN
         IF ~p.ok THEN {Returned(h, ImageErrorCode[p.err], Write(Null))}
         ELSE IF ~eng.ok
         THEN {Engine(Returned(h, ImageErrorCode[FromEngineError(eng.err)],
                               Write(Null)), eng.err)}
         ELSE { Engine(Returned(a.heap, ImageErrorCode.NoError,
                                Write(a.addr)), "ok") :
                  a \in from_image(h, eng.img) }

\* img_open(path, handle), with the result of image::open.
img_open(h, path, outNull, eng) ==
    IF outNull \/ path.null
    THEN {Returned(h, ImageErrorCode.Parameter, NoWrite)}
    ELSE LET p == TryFromRawPath(path) IN
         IF ~p.ok THEN {Returned(h, ImageErrorCode[p.err], NoWrite)}
         ELSE IF ~eng.ok
         THEN {Engine(Returned(h, ImageErrorCode[FromEngineError(eng.err)],
                               NoWrite), eng.err)}
         ELSE { Engine(Returned(a.heap, ImageErrorCode.NoError,
                                Write(a.addr)), "ok") :
                  a \in from_image(h, eng.img) }

\* img_save that takes the box back with into_image, so that the image is
\* dropped when the routine returns.
img_save_consumes(h, path, handle, eng) ==
    IF handle = Null \/ path.null
    THEN {Returned(h, ImageErrorCode.Parameter, NoWrite)}
    ELSE LET p == TryFromRawPath(path) IN
         IF ~p.ok THEN {Returned(h, ImageErrorCode[p.err], NoWrite)}
         ELSE IF as_image(h, handle).panic THEN Panics(h)
         ELSE LET freed == [h EXCEPT ![handle] = NoImage] IN
              IF eng = "ok"
              THEN {Engine(Returned(freed, ImageErrorCode.NoError, NoWrite),
                           "ok")}
              ELSE {Engine(Returned(freed,
                                    ImageErrorCode[FromEngineError(eng)],
                                    NoWrite), eng)}

\* img_save(path, handle), with the result of DynamicImage::save.
img_save(h, path, handle, eng) ==
    IF handle = Null \/ path.null
    THEN {Returned(h, ImageErrorCode.Parameter, NoWrite)}
    ELSE LET p == TryFromRawPath(path) IN
         IF ~p.ok THEN {Returned(h, ImageErrorCode[p.err], NoWrite)}
         ELSE IF as_image(h, handle).panic THEN Panics(h)
         ELSE IF eng = "ok"
         THEN {Engine(Returned(h, ImageErrorCode.NoError, NoWrite), "ok")}
         ELSE {Engine(Returned(h, ImageErrorCode[FromEngineError(eng)],
                               NoWrite), eng)}

\* img_destroy that forgets the box instead of dropping it.
img_destroy_leak(h, handle) ==
    IF handle = Null \/ h[handle] = NoImage THEN Undefined(h)
    ELSE {Returned(h, 0, NoWrite)}

\* img_destroy(handle): handle.into_image() is Box::from_raw, and the box is
\* dropped at once. No check of the handle comes first.
img_destroy(h, handle) ==
    IF handle = Null \/ h[handle] = NoImage THEN Undefined(h)
    ELSE {Returned([h EXCEPT ![handle] = NoImage], 0, NoWrite)}

\* img_blur that blurs the image behind the handle in place and returns a
\* copy of it.
img_blur_in_place(h, handle, sigma) ==
    LET image == as_image(h, handle) IN
    IF image.panic THEN Panics(h)
    ELSE LET blurred ==
                 [fmt |-> "Rgba8", px |-> EngineBlur(image.img.px, sigma)]
         IN  { Returned([a.heap EXCEPT ![handle] = blurred], a.addr, NoWrite) :
                 a \in from_image(h, blurred) }

\* img_blur(handle, sigma).
img_blur(h, handle, sigma) ==
    LET image == as_image(h, handle) IN
    IF image.panic THEN Panics(h)
    ELSE LET blurred ==
                 [fmt |-> "Rgba8", px |-> EngineBlur(image.img.px, sigma)]
         IN  { Returned(a.heap, a.addr, NoWrite) :
                 a \in from_image(h, blurred) }

\* img_mirror that takes the box back with into_image, so that the image is
\* dropped when the routine returns.
img_mirror_consumes(h, handle) ==
    LET image == as_image(h, handle) IN
    IF image.panic THEN Panics(h)
    ELSE {Returned([h EXCEPT ![handle] = NoImage], 0, NoWrite)}

\* img_mirror(handle).
img_mirror(h, handle) ==
    LET image == as_image(h, handle) IN
    IF image.panic THEN Panics(h)
    ELSE { Returned(
             [h EXCEPT ![handle] =
                 [fmt |-> image.img.fmt, px |-> FlipHorizontal(image.img.px)]],
             0, NoWrite) }

\* Bytes of a machine word and of a function pointer on the target.
WordBytes == 8

\* Function pointers in the table of this provider, and in the tables of
\* other builds of it (one fewer, one more).
TableSlots == 5
ProviderSlots == {TableSlots - 1, TableSlots, TableSlots + 1}

\* A table whose blur slot is bound only once an image is live.
FunctionsBlock_default_lazy(nf) ==
    [ size |-> WordBytes * (1 + nf),
      open_image |-> "img_open", save_image |-> "img_save",
      destroy_image |-> "img_destroy",
      blur_image |-> IF Live(heap) = {} THEN "null" ELSE "img_blur",
      mirror_image |-> "img_mirror" ]

\* FunctionsBlock::default, for a build whose table has nf function
\* pointers: size_of::<Self>() and the five routines.
FunctionsBlock_default(nf) ==
    [ size |-> WordBytes * (1 + nf),
      open_image |-> "img_open", save_image |-> "img_save",
      destroy_image |-> "img_destroy", blur_image |-> "img_blur",
      mirror_image |-> "img_mirror" ]

\* functions(): the table by value.
functions(nf) == FunctionsBlock_default(nf)

----------------------------------------------------------------------------
(* The consumer: bindings and Lib. *)

\* The consumer's enum with Io and Decoding declared in the other order.
ConsumerImageError_reordered(code) ==
    <<"NoError", "Decoding", "Io", "Encoding", "Parameter", "Unsupported">>[code + 1]

\* enum ImageError of the consumer, #[repr(u32)]: discriminant -> name.
ConsumerImageError(code) ==
    <<"NoError", "Io", "Decoding", "Encoding", "Parameter", "Unsupported">>[code + 1]

\* size_of::<Functions>(): a usize and five function pointers.
SizeOfFunctions == WordBytes * (1 + 5)

\* The test of Lib::new, taking any table at least as large as its own.
SizeAccepted_AtLeast(table) == table.size >= SizeOfFunctions

\* The test of Lib::new on the table it read.
SizeAccepted(table) == table.size = SizeOfFunctions

\* A table slot that holds no routine.
NoTable ==
    [ size |-> 0, open_image |-> "null", save_image |-> "null",
      destroy_image |-> "null", blur_image |-> "null",
      mirror_image |-> "null" ]

\* Lib::new(lib): resolve `functions`, call it, compare the size.
Lib_new(symbol, nf) ==
    IF ~symbol THEN [ok |-> FALSE, err |-> "NoSymbol", functions |-> NoTable]
    ELSE LET table == functions(nf) IN
         IF ~SizeAccepted(table)
         THEN [ok |-> FALSE, err |-> "SizeMismatch", functions |-> table]
         ELSE [ok |-> TRUE, err |-> "none", functions |-> table]

\* struct Lib { lib: Arc<Library>, functions }, for all the Libs of one load:
\* the strong count of the Arc, whether the shared object is mapped, and the
\* table each of them holds a copy of.
NoLib == [strong |-> 0, mapped |-> FALSE, functions |-> NoTable]

\* Lib::clone: one more strong reference to the Arc<Library>.
Lib_clone(a, l) == [a EXCEPT ![l].strong = @ + 1]

\* Dropping a Lib that holds the Library itself, not an Arc of it.
Lib_drop_unmaps(a, l) ==
    [a EXCEPT ![l].strong = @ - 1, ![l].mapped = FALSE]

\* Dropping a Lib: one strong reference fewer; the Library is dropped, and
\* the shared object unmapped, with the last one.
Lib_drop(a, l) ==
    [a EXCEPT ![l].strong = @ - 1, ![l].mapped = a[l].strong > 1]

\* Lib::open_image that returns the handle without the match on the code.
Lib_open_image_unmatched(o) ==
    [ ok |-> TRUE, handle |-> IF o.write.w THEN o.write.v ELSE Null,
      err |-> "none" ]

\* Lib::open_image: a null handle, the call, the match on the code.
Lib_open_image(o) ==
    LET handle == IF o.write.w THEN o.write.v ELSE Null
        err == ConsumerImageError(o.ret)
    IN  IF err = "NoError" THEN [ok |-> TRUE, handle |-> handle, err |-> "none"]
        ELSE [ok |-> FALSE, handle |-> Null, err |-> err]

\* Lib::save_image: the call, the match on the code.
Lib_save_image(o) ==
    LET err == ConsumerImageError(o.ret)
    IN  IF err = "NoError" THEN [ok |-> TRUE, err |-> "none"]
        ELSE [ok |-> FALSE, err |-> err]

\* Image { lib, handle }.
Image(l, handle) == [lib |-> l, handle |-> handle]

\* Image::blur that wraps the receiver's handle again.
Image_blur_alias(self, handle) == [lib |-> self.lib, handle |-> self.handle]

\* Image::blur: the Image made of the handle blur_image returned.
Image_blur(self, handle) == Image(self.lib, handle)

\* impl Drop for Image: the handle passed to destroy_image.
Image_drop(self) == self.handle

\* An Image whose Lib is released before its drop body runs.
Image_drop_libs_released(a, self) == Lib_drop(a, self.lib)

\* impl Drop for Image: the Libs as destroy_image finds them. The body of
\* drop runs first and the fields of the Image, its Lib among them, are
\* dropped after it, so the Image's own reference is still counted.
Image_drop_libs(a, self) == a

----------------------------------------------------------------------------
(* The records of the last step. *)

\* The call through the table the last step made: the routine, the load
\* whose table it went through (0: the direct host's), the arguments, how it
\* ended, what it returned, what it wrote through `out`, and whether the
\* library was mapped when it was made, and what the image engine answered
\* inside it.
NoCall ==
    [ fn |-> "none", lib |-> 0, path |-> NullPath, handle |-> Null,
      outNull |-> FALSE, sigma |-> 0, ret |-> 0, out |-> NoWrite,
      outcome |-> "none", mapped |-> FALSE, eng |-> "none" ]

Call(fn, l, path, handle, outNull, sigma, o) ==
    [ fn |-> fn, lib |-> l, path |-> path, handle |-> handle,
      outNull |-> outNull, sigma |-> sigma, ret |-> o.ret, out |-> o.write,
      outcome |-> o.outcome, mapped |-> (l = 0 \/ libs[l].mapped),
      eng |-> o.eng ]

\* The consumer method the last step ran: its path argument, its result
\* ("Ok" or the error), and for a load the size the table stated.
NoLast == [op |-> "none", path |-> <<>>, result |-> "none", size |-> 0]

Last(op, path, result, size) ==
    [op |-> op, path |-> path, result |-> result, size |-> size]

ProcAfter(o) == IF o.outcome = "returned" THEN "running" ELSE o.outcome

Init ==
    /\ heap = NoHeap
    /\ libs = [l \in 1..MaxLoads |-> NoLib]
    /\ nloads = 0
    /\ factories = {}
    /\ images = EmptyBag
    /\ slot = Null
    /\ block = NoTable
    /\ proc = "running"
    /\ last = NoLast
    /\ call = NoCall

----------------------------------------------------------------------------
(* The consumer's methods. *)

\* ImageFactory::new: map the library, Lib::new.
ImageFactory_new ==
    /\ proc = "running"
    /\ \E mapping \in BOOLEAN, symbol \in BOOLEAN, nf \in ProviderSlots :
         LET lib == Lib_new(symbol, nf)
             result == IF ~mapping THEN "LoadError"
                       ELSE IF lib.ok THEN "Ok" ELSE lib.err
             size == IF mapping THEN lib.functions.size ELSE 0
         IN  /\ result = "Ok" => nloads < MaxLoads
             /\ last' = Last("new", <<>>, result, size)
             /\ IF result = "Ok"
                THEN /\ nloads' = nloads + 1
                     /\ libs' = [libs EXCEPT ![nloads + 1] =
                                    [strong |-> 1, mapped |-> TRUE,
                                     functions |-> lib.functions]]
                     /\ factories' = factories \cup {nloads + 1}
                ELSE UNCHANGED <<nloads, libs, factories>>
    /\ call' = NoCall
    /\ UNCHANGED <<heap, images, slot, block, proc>>

\* ImageFactory::open_image -> Image::open: clone the Lib, marshal the path,
\* Lib::open_image; the clone is dropped with the error.
ImageFactory_open_image ==
    /\ proc = "running"
    /\ \E l \in factories, path \in Paths :
         LET c == path_to_cstring(path) IN
         IF ~c.ok
         THEN /\ last' = Last("open", path, c.err, 0)
              /\ call' = NoCall
              /\ UNCHANGED <<heap, libs, images, proc>>
         ELSE \E eng \in EngineOpenResults :
              \E o \in img_open(heap, PathPtr(c.cstring), FALSE, eng) :
                LET r == Lib_open_image(o) IN
                /\ r.ok => BagCardinality(images) < MaxImages
                /\ call' = Call("open_image", l, PathPtr(c.cstring), Null,
                                FALSE, 0, o)
                /\ heap' = o.heap
                /\ proc' = ProcAfter(o)
                /\ last' = Last("open", path, IF r.ok THEN "Ok" ELSE r.err, 0)
                /\ IF r.ok
                   THEN /\ images' = images (+) SetToBag({Image(l, r.handle)})
                        /\ libs' = Lib_clone(libs, l)
                   ELSE UNCHANGED <<libs, images>>
    /\ UNCHANGED <<nloads, factories, slot, block>>

\* Image::save.
Image_save ==
    /\ proc = "running"
    /\ \E self \in BagToSet(images), path \in Paths :
         LET c == path_to_cstring(path) IN
         IF ~c.ok
         THEN /\ last' = Last("save", path, c.err, 0)
              /\ call' = NoCall
              /\ UNCHANGED <<heap, proc>>
         ELSE \E eng \in EngineSaveResults :
              \E o \in img_save(heap, PathPtr(c.cstring), self.handle, eng) :
                LET r == Lib_save_image(o) IN
                /\ call' = Call("save_image", self.lib, PathPtr(c.cstring),
                                self.handle, FALSE, 0, o)
                /\ heap' = o.heap
                /\ proc' = ProcAfter(o)
                /\ last' = Last("save", path, IF r.ok THEN "Ok" ELSE r.err, 0)
    /\ UNCHANGED <<libs, nloads, factories, images, slot, block>>

\* Image::blur, through the blur_image of this provider.
Image_blur_call ==
    /\ proc = "running"
    /\ BagCardinality(images) < MaxImages
    /\ \E self \in BagToSet(images), sigma \in Sigmas :
         \E o \in img_blur(heap, self.handle, sigma) :
           /\ call' = Call("blur_image", self.lib, NullPath, self.handle,
                           FALSE, sigma, o)
           /\ heap' = o.heap
           /\ proc' = ProcAfter(o)
           /\ last' = Last("blur", <<>>,
                           IF o.outcome = "returned" THEN "Ok" ELSE o.outcome,
                           0)
           /\ IF o.outcome = "returned"
              THEN /\ images' = images (+) SetToBag({Image_blur(self, o.ret)})
                   /\ libs' = Lib_clone(libs, self.lib)
              ELSE UNCHANGED <<libs, images>>
    /\ UNCHANGED <<nloads, factories, slot, block>>

\* Image::mirror.
Image_mirror ==
    /\ proc = "running"
    /\ \E self \in BagToSet(images) :
         \E o \in img_mirror(heap, self.handle) :
           /\ call' = Call("mirror_image", self.lib, NullPath, self.handle,
                           FALSE, 0, o)
           /\ heap' = o.heap
           /\ proc' = ProcAfter(o)
           /\ last' = Last("mirror", <<>>,
                           IF o.outcome = "returned" THEN "Ok" ELSE o.outcome,
                           0)
    /\ UNCHANGED <<libs, nloads, factories, images, slot, block>>

\* An Image goes out of scope: Drop::drop calls destroy_image, then the
\* Image's Lib is dropped.
Image_scope_exit ==
    /\ proc = "running"
    /\ \E self \in BagToSet(images) :
         \E o \in img_destroy(heap, Image_drop(self)) :
           /\ call' = [Call("destroy_image", self.lib, NullPath,
                            Image_drop(self), FALSE, 0, o)
                          EXCEPT !.mapped =
                              Image_drop_libs(libs, self)[self.lib].mapped]
           /\ heap' = o.heap
           /\ proc' = ProcAfter(o)
           /\ last' = Last("drop", <<>>,
                           IF o.outcome = "returned" THEN "Ok" ELSE o.outcome,
                           0)
           /\ IF o.outcome = "returned"
              THEN /\ images' = images (-) SetToBag({self})
                   /\ libs' = Lib_drop(libs, self.lib)
              ELSE UNCHANGED <<libs, images>>
    /\ UNCHANGED <<nloads, factories, slot, block>>

\* An ImageFactory goes out of scope: its Lib is dropped.
ImageFactory_scope_exit ==
    /\ proc = "running"
    /\ \E l \in factories :
         /\ factories' = factories \ {l}
         /\ libs' = Lib_drop(libs, l)
         /\ last' = Last("drop_factory", <<>>, "Ok", 0)
    /\ call' = NoCall
    /\ UNCHANGED <<heap, nloads, images, slot, block, proc>>

Next ==
    \/ ImageFactory_new
    \/ ImageFactory_open_image
    \/ Image_save
    \/ Image_blur_call
    \/ Image_mirror
    \/ Image_scope_exit
    \/ ImageFactory_scope_exit

Spec == Init /\ [][Next]_vars

----------------------------------------------------------------------------
(* A host that calls the provider's routines directly, through the table    *)
(* functions() gave it, with any arguments the signatures admit: null or    *)
(* NUL-terminated paths, a null or valid `out`, null or live handles.       *)

HostPaths == {NullPath} \cup {PathPtr(p \o <<0>>) : p \in Paths}

HostHandles == {Null} \cup Live(heap)

Host_functions ==
    /\ proc = "running"
    /\ call' = [NoCall EXCEPT !.fn = "functions",
                              !.ret = functions(TableSlots).size,
                              !.outcome = "returned", !.mapped = TRUE]
    /\ block' = functions(TableSlots)
    /\ UNCHANGED <<heap, libs, nloads, factories, images, slot, proc, last>>

Host_open_image ==
    /\ proc = "running"
    /\ block.open_image # "null"
    /\ \E path \in HostPaths, outNull \in BOOLEAN, eng \in EngineOpenResults :
         \E o \in img_open(heap, path, outNull, eng) :
           /\ call' = Call("open_image", 0, path, Null, outNull, 0, o)
           /\ heap' = o.heap
           /\ slot' = IF o.write.w THEN o.write.v ELSE slot
           /\ block' = block
           /\ proc' = ProcAfter(o)
    /\ UNCHANGED <<libs, nloads, factories, images, last>>

Host_save_image ==
    /\ proc = "running"
    /\ block.save_image # "null"
    /\ \E path \in HostPaths, handle \in HostHandles,
          eng \in EngineSaveResults :
         \E o \in img_save(heap, path, handle, eng) :
           /\ call' = Call("save_image", 0, path, handle, FALSE, 0, o)
           /\ heap' = o.heap
           /\ proc' = ProcAfter(o)
    /\ UNCHANGED <<libs, nloads, factories, images, slot, block, last>>

Host_destroy_image ==
    /\ proc = "running"
    /\ block.destroy_image # "null"
    /\ \E handle \in HostHandles :
         \E o \in img_destroy(heap, handle) :
           /\ call' = Call("destroy_image", 0, NullPath, handle, FALSE, 0, o)
           /\ heap' = o.heap
           /\ proc' = ProcAfter(o)
    /\ UNCHANGED <<libs, nloads, factories, images, slot, block, last>>

Host_blur_image ==
    /\ proc = "running"
    /\ block.blur_image # "null"
    /\ \E handle \in HostHandles, sigma \in Sigmas :
         \E o \in img_blur(heap, handle, sigma) :
           /\ call' = Call("blur_image", 0, NullPath, handle, FALSE, sigma, o)
           /\ heap' = o.heap
           /\ proc' = ProcAfter(o)
    /\ UNCHANGED <<libs, nloads, factories, images, slot, block, last>>

Host_mirror_image ==
    /\ proc = "running"
    /\ block.mirror_image # "null"
    /\ \E handle \in HostHandles :
         \E o \in img_mirror(heap, handle) :
           /\ call' = Call("mirror_image", 0, NullPath, handle, FALSE, 0, o)
           /\ heap' = o.heap
           /\ proc' = ProcAfter(o)
    /\ UNCHANGED <<libs, nloads, factories, images, slot, block, last>>

NextHost ==
    \/ Host_functions
    \/ Host_open_image
    \/ Host_save_image
    \/ Host_destroy_image
    \/ Host_blur_image
    \/ Host_mirror_image

SpecHost == Init /\ [][NextHost]_vars

----------------------------------------------------------------------------
(* The consumer over any provider the ABI admits: the routines above, and  *)
(* a blur_image that returns the null handle.                              *)

\* Image::blur, through a blur_image that returns null.
Image_blur_null ==
    /\ proc = "running"
    /\ BagCardinality(images) < MaxImages
    /\ \E self \in BagToSet(images), sigma \in Sigmas :
         LET o == Returned(heap, Null, NoWrite) IN
         /\ call' = Call("blur_image", self.lib, NullPath, self.handle,
                         FALSE, sigma, o)
         /\ images' = images (+) SetToBag({Image_blur(self, o.ret)})
         /\ libs' = Lib_clone(libs, self.lib)
         /\ last' = Last("blur", <<>>, "Ok", 0)
    /\ UNCHANGED <<heap, nloads, factories, slot, block, proc>>

NextAnyProvider == Next \/ Image_blur_null

SpecAnyProvider == Init /\ [][NextAnyProvider]_vars

----------------------------------------------------------------------------
(* Properties. *)

\* Image values holding a handle, and Image values of a load.
Owners(b, handle) ==
    BagCardinality([i \in {j \in BagToSet(b) : j.handle = handle} |-> b[i]])

ImagesOf(b, l) ==
    BagCardinality([i \in {j \in BagToSet(b) : j.lib = l} |-> b[i]])

\* C1. Size handshake: a load whose library mapped and whose `functions`
\* resolved succeeds exactly when the table's size is the consumer's
\* size_of::<Functions>(); with another size it fails with the size
\* mismatch and makes no call, and every call through a table goes through
\* one whose size was the consumer's.
C1_SizeHandshake ==
    /\ (last.op = "new" /\ last.result \notin {"LoadError", "NoSymbol"}) =>
         /\ (last.result = "Ok") = (last.size = SizeOfFunctions)
         /\ last.size # SizeOfFunctions =>
              last.result = "SizeMismatch" /\ call = NoCall
    /\ \A l \in 1..nloads : libs[l].functions.size = SizeOfFunctions
    /\ (call.fn # "none" /\ call.lib # 0) =>
         /\ call.lib \in 1..nloads
         /\ libs[call.lib].functions.size = SizeOfFunctions

\* C1 witness: a load refused for its size, after a load that succeeded and
\* with an Image of that load alive.
C1_Witness ==
    /\ last.op = "new" /\ last.result = "SizeMismatch"
    /\ last.size < SizeOfFunctions
    /\ nloads >= 1 /\ images # EmptyBag

\* C2. Destroyed exactly once: after every step each live heap image is
\* held by exactly one Image and no Image holds a null or freed handle; a
\* handle returned by open_image or blur_image is new and goes to one new
\* Image; destroy_image is called only on the handle of the Image being
\* dropped, live until then and freed by it; and an Image goes away only with
\* that call.
C2_DestroyedExactlyOnce ==
    [][ LET c == call' IN
        /\ \A a \in Addrs :
             Owners(images', a) = IF a \in Live(heap') THEN 1 ELSE 0
        /\ Owners(images', Null) = 0
        /\ (c.fn = "open_image" /\ c.ret = ImageErrorCode.NoError) =>
             /\ c.out.w /\ c.out.v \in Addrs \ Live(heap)
             /\ CopiesIn(Image(c.lib, c.out.v), images') = 1
        /\ (c.fn = "blur_image" /\ c.outcome = "returned") =>
             /\ c.ret \in Addrs \ Live(heap)
             /\ CopiesIn(Image(c.lib, c.ret), images') = 1
        /\ c.fn = "destroy_image" =>
             /\ c.outcome = "returned"
             /\ c.handle \in Live(heap) /\ c.handle \notin Live(heap')
             /\ CopiesIn(Image(c.lib, c.handle), images) = 1
             /\ images' = images (-) SetToBag({Image(c.lib, c.handle)})
        /\ BagCardinality(images') < BagCardinality(images) =>
             c.fn = "destroy_image"
      ]_vars

\* C2 witness: an Image was dropped, its handle destroyed, and another Image
\* is still alive.
C2_Witness ==
    /\ call.fn = "destroy_image" /\ call.outcome = "returned"
    /\ heap[call.handle] = NoImage
    /\ BagCardinality(images) = 1

\* C3. Handle conservation: a step changes the number of live heap images by
\* the images open_image and blur_image made in it less the ones
\* destroy_image destroyed in it, so that it is N - M after N were made and
\* M destroyed; and with no Image left no heap image is live.
C3_HandleConservation ==
    [][ LET c == call'
            made == IF \/ c.fn = "open_image" /\ c.ret = ImageErrorCode.NoError
                       \/ c.fn = "blur_image" /\ c.outcome = "returned"
                    THEN 1 ELSE 0
            destroyed == IF c.fn = "destroy_image" /\ c.outcome = "returned"
                         THEN 1 ELSE 0
        IN  /\ Cardinality(Live(heap')) =
                 Cardinality(Live(heap)) + made - destroyed
            /\ images' = EmptyBag => Live(heap') = {}
      ]_vars

\* C3 witness: the last Image was dropped and the heap is empty again.
C3_Witness ==
    /\ call.fn = "destroy_image" /\ call.outcome = "returned"
    /\ images = EmptyBag /\ Live(heap) = {}

\* C4. The mapping outlives every handle: the strong count of a load's
\* Arc<Library> is the number of its live Images plus its live factory; the
\* library is mapped exactly while that number is positive; and every call
\* through a table is made while its library is mapped.
C4_MappingOutlivesHandles ==
    /\ \A l \in 1..MaxLoads :
         LET n == ImagesOf(images, l) + (IF l \in factories THEN 1 ELSE 0)
         IN  /\ libs[l].strong = n
             /\ libs[l].mapped = (n > 0)
    /\ call.lib # 0 => call.mapped

\* C4 witness: the factory is gone, two Images of its load are alive, and
\* the library is still mapped.
C4_Witness ==
    \E l \in 1..nloads :
        /\ l \notin factories
        /\ ImagesOf(images, l) = 2
        /\ libs[l].mapped

\* C5, as claimed: when blur_image returns the null handle, Image::blur
\* reports Unsupported and no Image holds the null handle.
C5_NullBlurIsUnsupported ==
    (call.fn = "blur_image" /\ call.outcome = "returned" /\ call.ret = Null)
        => /\ last.result = "Unsupported"
           /\ Owners(images, Null) = 0

\* C6, as claimed: destroy_image with the null handle returns normally and
\* leaves the process running.
C6_DestroyNullIsNoOp ==
    (call.fn = "destroy_image" /\ call.handle = Null)
        => call.outcome = "returned" /\ proc = "running"

\* C7, as claimed: a routine given a null handle or a null path returns
\* normally, and save_image then returns Parameter.
C7_NullArgumentsChecked ==
    LET nullHandle ==
            /\ call.fn \in {"save_image", "destroy_image", "blur_image",
                            "mirror_image"}
            /\ call.handle = Null
        nullPath ==
            /\ call.fn \in {"open_image", "save_image"}
            /\ call.path.null
    IN  (nullHandle \/ nullPath) =>
            /\ call.outcome = "returned"
            /\ proc = "running"
            /\ call.fn = "save_image" => call.ret = ImageErrorCode.Parameter

\* C8. Null robustness of open_image: with a null path or a null `out` it
\* returns Parameter, writes nothing through `out` (the host's handle
\* variable keeps its value) and allocates nothing.
C8_OpenNullRobust ==
    [][ (call'.fn = "open_image" /\ (call'.path.null \/ call'.outNull)) =>
            /\ call'.outcome = "returned"
            /\ call'.ret = ImageErrorCode.Parameter
            /\ ~call'.out.w
            /\ slot' = slot
            /\ heap' = heap
      ]_vars

\* C8 witness: open_image was called with a null path and a valid `out`
\* that held a handle, and it still holds it.
C8_Witness ==
    /\ call.fn = "open_image" /\ call.path.null /\ ~call.outNull
    /\ call.ret = ImageErrorCode.Parameter
    /\ slot # Null

C10_BlurPurity ==
    [][ LET c == call' IN
        /\ (c.fn = "blur_image" /\ c.outcome = "returned") =>
             /\ c.ret # c.handle
             /\ c.ret \in Addrs \ Live(heap)
             /\ heap'[c.ret] =
                  [fmt |-> "Rgba8",
                   px |-> EngineBlur(heap[c.handle].px, c.sigma)]
             /\ \A a \in Addrs \ {c.ret} : heap'[a] = heap[a]
             /\ c.handle \in Live(heap')
             /\ CopiesIn(Image(c.lib, c.handle), images') = 1
             /\ CopiesIn(Image(c.lib, c.ret), images') = 1
        /\ (c.fn \in {"mirror_image", "destroy_image"}) =>
             \A a \in Addrs \ {c.handle} : heap'[a] = heap[a]
      ]_vars

\* C10 witness: a blur returned an image that differs from its input, and
\* both are live.
C10_Witness ==
    /\ call.fn = "blur_image" /\ call.outcome = "returned"
    /\ call.ret \in Live(heap) /\ call.handle \in Live(heap)
    /\ heap[call.ret] # heap[call.handle]

\* C11. Mirror involution: mirror_image puts the flipped row behind the
\* same handle and leaves the handle live and owned by the same Image; and
\* mirror_image applied once more to the result gives back the image as it
\* was before the first call, whatever the image.
C11_MirrorInvolution ==
    [][ LET c == call' IN
        (c.fn = "mirror_image" /\ c.outcome = "returned") =>
            /\ c.handle \in Live(heap) /\ c.handle \in Live(heap')
            /\ heap'[c.handle].fmt = heap[c.handle].fmt
            /\ Len(heap'[c.handle].px) = Len(heap[c.handle].px)
            /\ images' = images
            /\ \A o \in img_mirror(heap', c.handle) :
                 o.outcome = "returned" /\ o.heap = heap
      ]_vars

\* C11 witness: mirror_image returned and the image is the one the engine
\* decoded, which only a second mirror of its flipped row gives.
C11_Witness ==
    /\ call.fn = "mirror_image" /\ call.outcome = "returned"
    /\ heap[call.handle] = [fmt |-> "Rgb8", px |-> <<0, 3>>]

\* C12. save_image leaves the image untouched: whether it returns NoError or
\* an error code, the content behind the handle is what it was, the handle
\* is live and owned by the same Image, and the live images on the heap are
\* the same as before the call.
C12_SaveLeavesImage ==
    [][ LET c == call' IN
        c.fn = "save_image" =>
            /\ c.outcome = "returned"
            /\ c.handle \in Live(heap)
            /\ heap' = heap
            /\ images' = images
            /\ Owners(images', c.handle) = 1
            /\ libs' = libs
      ]_vars

\* C12 witness: save_image failed in the engine while two images are live.
C12_Witness ==
    /\ call.fn = "save_image" /\ call.outcome = "returned"
    /\ call.ret = ImageErrorCode.Encoding
    /\ call.handle \in Live(heap)
    /\ Cardinality(Live(heap)) = 2

\* C13. Per-call errors are surfaced verbatim, with no retry: a wrapper
\* open or save makes at most one provider call (the one recorded for the
\* step), succeeds exactly when that call returned NoError, and otherwise
\* reports the error whose code in the provider's enum is the code returned.
C13_ErrorsVerbatim ==
    (last.op \in {"open", "save"} /\ call # NoCall) =>
        /\ call.fn = (IF last.op = "open" THEN "open_image" ELSE "save_image")
        /\ call.outcome = "returned"
        /\ call.ret \in 0..5
        /\ (last.result = "Ok") <=> (call.ret = ImageErrorCode.NoError)
        /\ call.ret # ImageErrorCode.NoError =>
              /\ last.result \in
                   {"Io", "Decoding", "Encoding", "Parameter", "Unsupported"}
              /\ ImageErrorCode[last.result] = call.ret

\* C13 witness: open_image returned Decoding and the wrapper reported it.
C13_Witness ==
    /\ last.op = "open" /\ call.fn = "open_image"
    /\ call.ret = ImageErrorCode.Decoding
    /\ last.result = "Decoding"

\* C14. The translation of engine errors is total and fixed: when the
\* engine fails inside open_image or save_image, an I/O failure returns Io,
\* a decoding failure Decoding, an encoding failure Encoding, an unsupported
\* format Unsupported, an invalid parameter Parameter, and every other kind
\* Unsupported; no engine failure returns NoError; the two routines map
\* alike, and the image and `out` are left alone.
C14_EngineErrorCode ==
    (call.fn \in {"open_image", "save_image"}
        /\ call.eng \notin {"none", "ok"}) =>
        /\ call.outcome = "returned"
        /\ call.ret # ImageErrorCode.NoError
        /\ call.ret =
             (CASE call.eng = "IoError" -> 1
                [] call.eng = "Decoding" -> 2
                [] call.eng = "Encoding" -> 3
                [] call.eng = "Parameter" -> 4
                [] call.eng = "Unsupported" -> 5
                [] OTHER -> 5)
        /\ ~call.out.w

\* C14 witness: save_image met an engine error of a kind with no code of its
\* own and returned Unsupported.
C14_Witness ==
    /\ call.fn = "save_image"
    /\ call.eng \notin {"none", "ok", "IoError", "Decoding", "Encoding",
                        "Parameter", "Unsupported"}
    /\ call.ret = ImageErrorCode.Unsupported

\* C15. functions is idempotent and pure: every call returns a table of the
\* same size with the same five routines, none of them null, equal to the
\* table any earlier call returned, whatever calls were made in between; and
\* the call changes nothing of the provider's state.
C15_FunctionsPure ==
    [][ call'.fn = "functions" =>
            /\ call'.outcome = "returned"
            /\ block'.size = WordBytes * (1 + TableSlots)
            /\ call'.ret = block'.size
            /\ \A f \in {"open_image", "save_image", "destroy_image",
                         "blur_image", "mirror_image"} : block'[f] # "null"
            /\ block # NoTable => block' = block
            /\ heap' = heap
            /\ slot' = slot
      ]_vars

\* C15 witness: functions was called again after the host had a table and
\* had made two images with it.
C15_Witness ==
    /\ call.fn = "functions"
    /\ block # NoTable
    /\ Cardinality(Live(heap)) = 2

\* C16. No use after destroy: in every sequence of wrapper operations a
\* handle passed to save_image, blur_image, mirror_image or destroy_image is
\* live when it is passed, so none is passed after destroy_image was called
\* on it; save, blur and mirror leave it live and destroy_image ends it; and
\* an address comes to life only as the new handle open_image or blur_image
\* returns, at a time when no Image holds the handle that was destroyed there.
C16_NoUseAfterDestroy ==
    [][ LET c == call' IN
        /\ c.fn \in {"save_image", "blur_image", "mirror_image",
                     "destroy_image"} =>
              /\ c.handle \in Live(heap)
              /\ Owners(images, c.handle) = 1
              /\ c.outcome = "returned"
        /\ c.fn \in {"save_image", "blur_image", "mirror_image"} =>
              c.handle \in Live(heap')
        /\ c.fn = "destroy_image" =>
              /\ c.handle \notin Live(heap')
              /\ Owners(images', c.handle) = 0
        /\ \A a \in Live(heap') \ Live(heap) :
              /\ Owners(images, a) = 0
              /\ \/ c.fn = "open_image" /\ c.out = Write(a)
                 \/ c.fn = "blur_image" /\ c.ret = a
        /\ \A a \in Live(heap) \ Live(heap') :
              c.fn = "destroy_image" /\ c.handle = a
      ]_vars

\* C16 witness: an Image was dropped and its handle destroyed while another
\* Image lives on with a live handle of its own.
C16_Witness ==
    /\ call.fn = "destroy_image" /\ last.op = "drop"
    /\ call.handle \notin Live(heap)
    /\ Owners(images, call.handle) = 0
    /\ \E i \in BagToSet(images) : i.handle \in Live(heap)

\* C17. A failed open produces no handle: whenever open_image returns a
\* code other than NoError, no image was allocated on the heap, nothing was
\* written through `out`, the wrapper reports the error and constructs no
\* Image (the Lib clone made for it is gone), and the step makes no
\* destroy_image call.
C17_FailedOpenNoHandle ==
    [][ LET c == call' IN
        (c.fn = "open_image" /\ c.ret # ImageErrorCode.NoError) =>
            /\ heap' = heap
            /\ ~c.out.w
            /\ images' = images
            /\ libs' = libs
            /\ last'.op = "open" /\ last'.result # "Ok"
      ]_vars

\* C17 witness: an open failed in the engine while an Image of the same
\* factory is alive.
C17_Witness ==
    /\ call.fn = "open_image" /\ call.ret = ImageErrorCode.Io
    /\ last.op = "open" /\ last.result = "Io"
    /\ \E i \in BagToSet(images) : i.lib = call.lib

\* C18. The consumer never calls destroy_image with null: whatever the
\* provider does within the ABI (open_image succeeding or failing,
\* blur_image returning any handle value), every Image holds a non-null
\* handle, and so every destroy_image call its Drop makes passes a non-null
\* handle.
C18_NoNullDestroy ==
    /\ \A i \in BagToSet(images) : i.handle # Null
    /\ (call.fn = "destroy_image" /\ call.lib # 0) => call.handle # Null

\* C19. Destroy before unmap: when an Image is dropped, destroy_image is
\* called before the Image releases its reference to the library, so the
\* call is made while the library is mapped, also when the Image holds the
\* last reference after its factory is gone and the library is unmapped
\* right after; and every other call through the table of a load is made
\* while that load is mapped and leaves it mapped.
C19_DestroyBeforeUnmap ==
    call.lib # 0 =>
        /\ call.mapped
        /\ call.fn # "destroy_image" => libs[call.lib].mapped
        /\ (call.fn = "destroy_image" /\ call.outcome = "returned") =>
              (libs[call.lib].mapped <=> libs[call.lib].strong > 0)

\* C19 witness: the last Image of a load whose factory is gone was dropped:
\* destroy_image ran while the library was mapped and it is unmapped now.
C19_Witness ==
    /\ call.fn = "destroy_image" /\ call.lib # 0
    /\ call.outcome = "returned" /\ call.mapped
    /\ call.lib \notin factories
    /\ libs[call.lib].strong = 0 /\ ~libs[call.lib].mapped

\* C20. A path that is valid UTF-8 but holds an interior NUL is rejected by
\* the wrapper: open_image and save return an error and make no provider
\* call; and for every path the wrapper does pass to the provider, the bytes
\* before the terminating NUL are the bytes of the caller's path.
C20_InteriorNulRejected ==
    last.op \in {"open", "save"} =>
        /\ (Utf8Valid(last.path) /\ HasNul(last.path)) =>
              /\ last.result # "Ok"
              /\ last.result = "NulError"
              /\ call = NoCall
        /\ call # NoCall =>
              /\ ~call.path.null
              /\ call.path.buf # <<>>
              /\ call.path.buf[Len(call.path.buf)] = 0
              /\ CStrBytes(call.path.buf) = last.path

\* C20 witness: a save with a path of valid UTF-8 and an interior NUL was
\* refused with no call made.
C20_Witness ==
    /\ last.op = "save"
    /\ Utf8Valid(last.path) /\ HasNul(last.path)
    /\ last.result = "NulError"
    /\ call = NoCall

====
